---- MODULE Spec2Model ----
(***************************************************************************)
(* The notes workspace of joe-app: the ordered note list, the active note, *)
(* the tab gesture handlers and the persisted store.                       *)
(*                                                                         *)
(* Two revisions of the Notes page are modelled side by side, selected by  *)
(* the variable ver, which never changes after Init:                       *)
(*   "cur"  src/src/pages/notes.tsx   (horizontal reorder, deferred delete) *)
(*   "p1"   src/unnamed/part_001      (vertical extension and reorder)      *)
(*                                                                         *)
(* React is modelled as the code uses it.  A handler reads the state of    *)
(* the render that created it (its closure) and the live refs and DOM      *)
(* elements; its set-state calls are batched and take effect in the        *)
(* commit that follows the handler, and the effects of that commit run     *)
(* before the next event.  One action is one event: handler, commit and    *)
(* effects.  Timers (setTimeout) are actions of their own.                 *)
(***************************************************************************)
EXTENDS Integers, Sequences, FiniteSets, TLC

\* ------------------------------------------------------------------ bounds

MaxClock == 3        \* readings of Date.now() at which a note is created
MaxNotes == 3        \* notes in the list
MaxPending == 1      \* pending timers of each kind
MaxDoc == 5          \* most nodes under the content div of the editor

\* Pointer coordinates delivered by the host (clientX, clientY).  Only the
\* distance to the drag origin is read, so every press is taken at one point
\* and the moves go to points left and right, above and below it.
PressXS == {0}
PressYS == {0}
XS == {-50, 0, 4, 50, 150}
XSP1 == {0, 50}
YS == {-50, -25, 0, 25}

\* ------------------------------------------------------- program constants

MAX_DRAG_DISTANCE == 100   \* part_001
MAX_TAB_EXTEND == 100      \* notes.tsx
TabWidth == 40             \* layout width of a rendered tab, for getBoundingClientRect
Null == 0                  \* null / undefined (no note id is 0)

Ids == 1 .. MaxClock

DateName == "today"
DefaultColor == "#5f8bbf"

VARIABLES
  ver,            \* which revision of the page runs
  mounted,        \* the component has run its first effects
  notes,          \* useState notes
  activeNoteId,   \* useState activeNoteId (Null: null)
  draggedTabId,   \* useState draggedTabId (Null: null)
  dragType,       \* useState dragType ("none": null)
  dragStartX,     \* ref
  dragStartY,     \* ref (p1)
  isDragging,     \* ref
  hasDragMoved,   \* ref
  lastClickTime,  \* ref: 0, or 1 when it holds the time of the last press
  dragOffsetY,    \* ref (p1): id -> stored offset (undefined reads as 0)
  tabEl,          \* tabRefs: id -> the tab's DOM element (classes, style)
  listening,      \* mousemove/mouseup listeners are registered on document
  moveNotes,      \* the note ids captured by the memoized handleDragMove
  localStorage,   \* the entry 'notes' of the persisted store
  clock,          \* last reading of Date.now() used for a note id
  deleteTimers,   \* pending setTimeout(deleteNote, 10) closures (cur)
  createTimers,   \* pending setTimeout(createNewNote, 50) closures (cur)
  lastEv          \* history: the event handled last

pageVars == <<ver, mounted, notes, activeNoteId, draggedTabId, dragType, dragStartX,
          dragStartY, isDragging, hasDragMoved, lastClickTime, dragOffsetY,
          tabEl, listening, moveNotes, localStorage, clock, deleteTimers,
          createTimers, lastEv>>

\* The rich text editor (SimpleRichTextEditor.tsx) and the part of its owner
\* (the page) it talks to.
VARIABLES
  dom,            \* editorRef.current: the child nodes of the content div
  sel,            \* window.getSelection(): the range, by where its ends are
  content,        \* the owner's notes: note -> the content it holds
  edActive,       \* the owner's active note: value is content[edActive]
  isBold,         \* useState isBold
  showSizeMenu,   \* useState showSizeMenu
  emits,          \* history: what the last event passed to onChange, in order
  lastEmitted,    \* history: the last string passed to onChange
  edEv            \* history: the last event of the editor and what it did

edVars == <<dom, sel, content, edActive, isBold, showSizeMenu, emits,
            lastEmitted, edEv>>

vars == <<pageVars, edVars>>

\* ----------------------------------------------------------------- helpers

Min(a, b) == IF a < b THEN a ELSE b
Max(a, b) == IF a > b THEN a ELSE b
Abs(a) == IF a < 0 THEN -a ELSE a

IdsOf(ns) == [i \in 1 .. Len(ns) |-> ns[i].id]
IdSet(ns) == {ns[i].id : i \in 1 .. Len(ns)}
Range(f) == {f[i] : i \in DOMAIN f}

\* Array.prototype.findIndex on ids, 1-based; 0 stands for -1.
FindIndex(ids, id) ==
  IF \E i \in 1 .. Len(ids) : ids[i] = id
  THEN CHOOSE i \in 1 .. Len(ids) : ids[i] = id /\ \A j \in 1 .. i - 1 : ids[j] # id
  ELSE 0

\* Array.prototype.filter(note => note.id !== id)
FilterOut(ns, id) == SelectSeq(ns, LAMBDA n : n.id # id)

\* splice(i, 1) at the 1-based index i
RemoveAt(s, i) == SubSeq(s, 1, i - 1) \o SubSeq(s, i + 1, Len(s))

\* splice(k, 0, x) at the 0-based index k: as splice does, a negative k counts
\* from the end and the index is clamped to [0, length].
InsertAt(s, k, x) ==
  LET kk == IF k < 0 THEN Max(Len(s) + k, 0) ELSE Min(k, Len(s))
  IN SubSeq(s, 1, kk) \o <<x>> \o SubSeq(s, kk + 1, Len(s))

\* A tab's element as the handlers leave it: the extension classes they added
\* ("partial": tabPartiallyExtended, "full": tabFullyExtended), the translateX
\* of style.transform, and ext: style.height minus the 40px of a collapsed
\* tab (kept for notes.tsx, where it is the only record of how far a tab is
\* extended; part_001 stores the offset in dragOffsetY).  The classes that
\* only style a drag (draggingTab, horizontalDrag, tabSnapping), z-index, and
\* the timers that remove those classes are left out: no handler reads them.
NewElement == [cls |-> {}, tx |-> 0, ext |-> 0]
NoElements == [i \in Ids |-> NewElement]
NoOffsets == [i \in Ids |-> 0]

NewNote(id) == [id |-> id, name |-> DateName, content |-> "", color |-> DefaultColor]

\* The state a handler works on, as one record.  nch: setNotes was called with
\* a new array since the last commit.  made: a note was created at the reading
\* the clock has now.
\* shown: the ids of the tabs in the document, those of the last commit.
Cur ==
  [notes |-> notes, active |-> activeNoteId, dragged |-> draggedTabId,
   dtype |-> dragType, dsx |-> dragStartX, dsy |-> dragStartY,
   isDragging |-> isDragging, hasMoved |-> hasDragMoved,
   lastClick |-> lastClickTime, off |-> dragOffsetY, el |-> tabEl,
   listening |-> listening, moveNotes |-> moveNotes, storage |-> localStorage,
   clock |-> clock, delT |-> deleteTimers, crtT |-> createTimers,
   shown |-> IdsOf(notes), nch |-> FALSE, made |-> FALSE]

\* The closure of the handlers of the current render.
Closure == [notes |-> notes, active |-> activeNoteId, dragged |-> draggedTabId,
            dtype |-> dragType]

\* The closure of the registered handleDragMove / handleDragEnd: memoized on
\* [dragType, draggedTabId], so it holds the current values of these two and
\* the notes of the render in which they last changed.
MoveClosure == [notes |-> moveNotes, dragged |-> draggedTabId, dtype |-> dragType]

\* ------------------------------------------------- functions of the page

\* tabRefs.current[id] is an element: a tab with this id is in the document.
HasEl(s, id) == id \in Range(s.shown)

\* resetTabPosition(id), called from a handler whose closure is c.
ResetTabPosition(s, c, id) ==
  LET s1 == IF HasEl(s, id)
            THEN [s EXCEPT !.el[id] = NewElement,
                           !.off[id] = IF ver = "p1" THEN 0 ELSE @]
            ELSE s
  IN IF id = c.dragged
     THEN [s1 EXCEPT !.dragged = Null, !.dtype = "none"]
     ELSE s1

\* createNewNote(), called from a handler whose closure is c.  The id is
\* Date.now(): a new reading, unless a note was already created at this one.
CreateNewNote(s, c) ==
  LET id == IF s.made THEN s.clock ELSE s.clock + 1
      s1 == IF c.dragged # Null THEN ResetTabPosition(s, c, c.dragged) ELSE s
  IN [s1 EXCEPT !.notes = Append(@, NewNote(id)), !.active = id,
                !.nch = TRUE, !.clock = id, !.made = TRUE]

\* createdAt is read from the same clock instant as the id.
CreatedAt(n) == n.id

\* [...processedNotes].sort((a, b) => b.createdAt - a.createdAt)[0]: the sort
\* is stable, so among the newest notes the first in list order.
MostRecent(ns) ==
  ns[CHOOSE i \in 1 .. Len(ns) :
       /\ \A j \in 1 .. Len(ns) : CreatedAt(ns[j]) <= CreatedAt(ns[i])
       /\ \A j \in 1 .. i - 1 : CreatedAt(ns[j]) < CreatedAt(ns[i])]

\* localStorage's entry 'notes': none, a string JSON.parse rejects (or that is
\* not an array), or JSON.stringify of a note array.
Absent == [kind |-> "absent", val |-> <<>>]
Malformed == [kind |-> "malformed", val |-> <<>>]
Stored(ns) == [kind |-> "notes", val |-> ns]

\* The load effect without its else branch (no default note is created).
LoadEffectNoDefault(s, c) ==
  LET s1 == IF s.storage.kind \in {"absent", "malformed"} THEN s
            ELSE [s EXCEPT !.notes = s.storage.val, !.nch = TRUE,
                           !.active = IF Len(s.storage.val) > 0
                                      THEN MostRecent(s.storage.val).id ELSE @]
  IN IF ver = "p1" THEN [s1 EXCEPT !.off = NoOffsets] ELSE s1

\* The body of the load effect, run by the render whose closure is c.
LoadEffect(s, c) ==
  LET s1 == IF s.storage.kind = "absent" THEN CreateNewNote(s, c)
            ELSE IF s.storage.kind = "malformed" THEN s
            ELSE [s EXCEPT !.notes = s.storage.val, !.nch = TRUE,
                           !.active = IF Len(s.storage.val) > 0
                                      THEN MostRecent(s.storage.val).id ELSE @]
  IN IF ver = "p1" THEN [s1 EXCEPT !.off = NoOffsets] ELSE s1

\* The body of the save effect.
SaveEffect(s, ns) == IF Len(ns) > 0 THEN [s EXCEPT !.storage = Stored(ns)] ELSE s

\* The tab element of id is the same DOM element in both renders: React keeps
\* an element whose key is unchanged (cur: tab-<id>-<index>, p1: <id>).
Kept(oldIds, newIds, id) ==
  IF ver = "cur"
  THEN \E i \in 1 .. Min(Len(oldIds), Len(newIds)) : oldIds[i] = id /\ newIds[i] = id
  ELSE id \in Range(oldIds) /\ id \in Range(newIds)

\* The DOM after React has committed the render: a new element has no class or
\* style set by the handlers; an element whose className prop changed (the
\* tab became active or stopped being active) has its class attribute
\* rewritten, which drops the classes the handlers added.
Reconcile(el, oldIds, oldActive, newIds, newActive) ==
  [id \in Ids |->
     IF ~ Kept(oldIds, newIds, id) THEN NewElement
     ELSE IF (oldActive = id) # (newActive = id)
          THEN [el[id] EXCEPT !.cls = {}]
          ELSE el[id]]

\* The commit that follows a handler, and the effects it triggers, until no
\* state update is pending.  r is the render before: [shown, active, dragged,
\* dtype]; first: this is the mount (every effect runs).
RECURSIVE Commit(_, _, _, _)
Commit(r, s, first, fuel) ==
  LET newIds == IdsOf(s.notes)
      dchg == first \/ s.dragged # r.dragged
      hchg == dchg \/ s.dtype # r.dtype
      c == [notes |-> s.notes, active |-> s.active, dragged |-> s.dragged,
            dtype |-> s.dtype]
      s1 == [s EXCEPT !.el = Reconcile(s.el, r.shown, r.active, newIds, s.active),
                      !.shown = newIds,
                      !.listening = IF hchg THEN FALSE ELSE @,
                      !.moveNotes = IF hchg THEN newIds ELSE @,
                      !.nch = FALSE]
      s2 == IF dchg THEN LoadEffect(s1, c) ELSE s1
      s3 == IF s.nch \/ first THEN SaveEffect(s2, s.notes) ELSE s2
      r2 == [shown |-> newIds, active |-> s.active, dragged |-> s.dragged,
             dtype |-> s.dtype]
  IN IF dchg /\ fuel > 0 THEN Commit(r2, s3, FALSE, fuel - 1) ELSE s3

Rendered == [shown |-> IdsOf(notes), active |-> activeNoteId,
             dragged |-> draggedTabId, dtype |-> dragType]

\* The variables after an event that leaves the handler state s.
Apply(s0, ev) ==
  \E s \in {Commit(Rendered, s0, ~ mounted, 4)} :
     /\ notes' = s.notes
     /\ activeNoteId' = s.active
     /\ draggedTabId' = s.dragged
     /\ dragType' = s.dtype
     /\ dragStartX' = s.dsx
     /\ dragStartY' = s.dsy
     /\ isDragging' = s.isDragging
     /\ hasDragMoved' = s.hasMoved
     /\ lastClickTime' = s.lastClick
     /\ dragOffsetY' = s.off
     /\ tabEl' = s.el
     /\ listening' = s.listening
     /\ moveNotes' = s.moveNotes
     /\ localStorage' = s.storage
     /\ clock' = s.clock
     /\ deleteTimers' = s.delT
     /\ createTimers' = s.crtT
     /\ lastEv' = ev
     /\ mounted' = TRUE
     /\ UNCHANGED <<ver>>
     /\ UNCHANGED edVars
     \* the bounds of the model
     /\ s.clock <= MaxClock
     /\ Len(s.notes) <= MaxNotes

\* ------------------------------------------------ handlers of notes.tsx

\* handleTabDoubleClick(id) of notes.tsx.
DoubleClickCur(s, c, id) ==
  IF ~ HasEl(s, id) THEN s
  ELSE LET isAlreadyExtended == "full" \in s.el[id].cls
           s1 == IF c.dragged # Null THEN ResetTabPosition(s, c, c.dragged) ELSE s
       IN IF isAlreadyExtended /\ id = c.dragged THEN s1
          ELSE [s1 EXCEPT !.dragged = id,
                          !.el[id] = [cls |-> s1.el[id].cls \cup {"full"},
                                      tx |-> 0, ext |-> MAX_TAB_EXTEND]]

\* handleDragStart(e, id) of notes.tsx; quick: now - lastClickTime < 300.
DragStartCur(s, c, id, x, quick) ==
  IF quick /\ s.lastClick # 0
  THEN [DoubleClickCur(s, c, id) EXCEPT !.lastClick = 0]
  ELSE LET s1 == [s EXCEPT !.lastClick = 1, !.active = id]
       IN IF HasEl(s1, id) /\ s1.el[id].cls \cap {"partial", "full"} # {}
          THEN ResetTabPosition(s1, c, id)
          ELSE LET s2 == [s1 EXCEPT !.dsx = x, !.isDragging = TRUE,
                                    !.hasMoved = FALSE]
                   s3 == IF c.dragged # Null /\ c.dragged # id
                         THEN ResetTabPosition(s2, c, c.dragged) ELSE s2
                   s4 == [s3 EXCEPT !.dragged = id, !.dtype = "horizontal"]
               IN [s4 EXCEPT !.listening = TRUE]

\* rect.left of the tab id: its slot in the row of tabs, plus the translateX
\* of its style (getBoundingClientRect includes the transform).
RectLeft(s, id) == (FindIndex(s.shown, id) - 1) * TabWidth + s.el[id].tx

\* getTabPositions() of the closure c: the notes of c, each with its live
\* rectangle, those without an element left out.
GetTabPositions(s, c) ==
  LET ids == SelectSeq(c.notes, LAMBDA i : HasEl(s, i))
  IN [k \in 1 .. Len(ids) |-> [id |-> ids[k], left |-> RectLeft(s, ids[k])]]

\* The index i (1-based) at which the loop of handleDragMove reorders, or 0:
\* the first position other than currentIndex whose centre the candidate
\* position has passed.  Twice the values, so that width / 2 is exact.
Crosses(pos, ci, cp, i) ==
  LET centre2 == 2 * pos[i].left + TabWidth
  IN i # ci /\ ((i < ci /\ 2 * cp < centre2) \/ (i > ci /\ 2 * cp > centre2))

ReorderTarget(pos, ci, cp) ==
  IF \E i \in 1 .. Len(pos) : Crosses(pos, ci, cp, i)
  THEN CHOOSE i \in 1 .. Len(pos) :
         Crosses(pos, ci, cp, i) /\ \A j \in 1 .. i - 1 : ~ Crosses(pos, ci, cp, j)
  ELSE 0

\* reorderTabs with the splice that removes the moved note left out.
ReorderTabsKeepsSource(prev, fromId, toIndex) ==
  LET fromIndex == FindIndex(IdsOf(prev), fromId)
  IN IF fromIndex = 0 THEN prev
     ELSE InsertAt(prev, toIndex, prev[fromIndex])

\* A reorder that exchanges the moved note with the note at toIndex.
ReorderTabsSwaps(prev, fromId, toIndex) ==
  LET fromIndex == FindIndex(IdsOf(prev), fromId)
  IN IF fromIndex = 0 \/ toIndex < 0 \/ toIndex >= Len(prev) THEN prev
     ELSE [prev EXCEPT ![fromIndex] = prev[toIndex + 1],
                       ![toIndex + 1] = prev[fromIndex]]

\* The updater reorderTabs(fromId, toIndex) gives to setNotes; toIndex 0-based.
ReorderTabs(prev, fromId, toIndex) ==
  LET fromIndex == FindIndex(IdsOf(prev), fromId)
  IN IF fromIndex = 0 THEN prev
     ELSE InsertAt(RemoveAt(prev, fromIndex), toIndex, prev[fromIndex])

\* The reorder check shared by both revisions: positions, candidate position
\* left + delta, the splice and the rebase of dragStartX.
ReorderCheck(s, c, pos, delta, x) ==
  LET ci == FindIndex([k \in 1 .. Len(pos) |-> pos[k].id], c.dragged)
  IN IF ci = 0 THEN s
     ELSE LET cp == pos[ci].left + delta
              i == ReorderTarget(pos, ci, cp)
          IN IF i = 0 THEN s
             ELSE LET ns == ReorderTabs(s.notes, c.dragged, i - 1)
                  IN [s EXCEPT !.notes = ns,
                               !.nch = @ \/ FindIndex(IdsOf(s.notes), c.dragged) # 0,
                               !.dsx = x]

dragThresholdCur == 5

\* handleDragMove(e) of notes.tsx, the registered closure c.
DragMoveCur(s, c, x) ==
  IF ~ s.isDragging \/ c.dragged = Null \/ c.dtype # "horizontal" THEN s
  ELSE LET deltaX == x - s.dsx
       IN IF Abs(deltaX) > dragThresholdCur
          THEN LET s1 == [s EXCEPT !.hasMoved = TRUE]
                   s2 == IF HasEl(s1, c.dragged)
                         THEN [s1 EXCEPT !.el[c.dragged].tx = deltaX]
                         ELSE s1
               IN ReorderCheck(s2, c, GetTabPositions(s2, c), deltaX, x)
          ELSE s

\* handleDragEnd() of notes.tsx, the registered closure c.
DragEndCur(s, c) ==
  IF c.dragged = Null THEN s
  ELSE LET s1 == [s EXCEPT !.isDragging = FALSE]
           s2 == IF ~ s1.hasMoved THEN [s1 EXCEPT !.active = c.dragged]
                 ELSE IF c.dtype = "horizontal"
                 THEN LET s3 == IF HasEl(s1, c.dragged)
                                THEN [s1 EXCEPT !.el[c.dragged].tx = 0]
                                ELSE s1
                      IN [s3 EXCEPT !.dragged = Null, !.dtype = "none"]
                 ELSE s1
       IN [s2 EXCEPT !.hasMoved = FALSE, !.listening = FALSE]

\* handleDocumentClick(e) with a target outside the tabs, the add-tab button,
\* the tab options, the colour picker and the rename dialog.
DocumentClick(s, c) ==
  IF c.dragged = Null THEN s ELSE ResetTabPosition(s, c, c.dragged)

\* deleteNote(id) of notes.tsx, run by the timer with the closure c of the
\* render in which the delete button was clicked.
DeleteNoteCur(s, c, id) ==
  LET noteIndex == FindIndex(IdsOf(c.notes), id)
      updatedNotes == FilterOut(c.notes, id)
  IN IF noteIndex = 0 THEN s
     ELSE LET s1 == [s EXCEPT !.notes = updatedNotes, !.nch = TRUE,
                              !.storage = Stored(updatedNotes)]
              s2 == IF id = c.dragged
                    THEN [s1 EXCEPT !.dragged = Null, !.dtype = "none"] ELSE s1
              s3 == IF c.active = id
                    THEN IF Len(updatedNotes) > 0
                         THEN [s2 EXCEPT !.active =
                                 updatedNotes[Min(noteIndex, Len(updatedNotes))].id]
                         ELSE [s2 EXCEPT !.active = Null]
                    ELSE s2
          IN IF Len(c.notes) <= 1
             THEN [s3 EXCEPT !.crtT = @ \cup {c}]
             ELSE s3

\* ------------------------------------------------ handlers of part_001

\* handleTabDoubleClick(id) of part_001.
DoubleClickP1(s, c, id) ==
  IF s.off[id] > 0 THEN ResetTabPosition(s, c, id)
  ELSE LET s1 == [s EXCEPT !.dragged = id]
       IN IF HasEl(s1, id)
          THEN [s1 EXCEPT !.el[id] = [cls |-> s1.el[id].cls \cup {"full"},
                                      tx |-> 0, ext |-> 0],
                          !.off[id] = MAX_DRAG_DISTANCE]
          ELSE s1

\* handleDragStart(e, id) of part_001.
DragStartP1(s, c, id, x, y, quick) ==
  IF quick /\ s.lastClick # 0
  THEN [DoubleClickP1(s, c, id) EXCEPT !.lastClick = 0]
  ELSE LET s1 == [s EXCEPT !.lastClick = 1, !.dsy = y, !.dsx = x,
                           !.isDragging = TRUE, !.hasMoved = FALSE, !.active = id]
           s2 == IF c.dragged # Null /\ c.dragged # id
                 THEN ResetTabPosition(s1, c, c.dragged) ELSE s1
           s3 == [s2 EXCEPT !.dragged = id]
       IN [s3 EXCEPT !.listening = TRUE]

\* updateTabExtensionState with the band full only from 50 on.
UpdateTabExtensionStateFullFrom50(cls, dragDistance) ==
  (cls \ {"partial", "full"})
    \cup (IF dragDistance >= 50 THEN {"full"}
          ELSE IF dragDistance > 10 THEN {"partial"} ELSE {})

\* updateTabExtensionState(id, dragDistance), on the element's classes.
UpdateTabExtensionState(cls, dragDistance) ==
  (cls \ {"partial", "full"})
    \cup (IF dragDistance >= 40 THEN {"full"}
          ELSE IF dragDistance > 10 THEN {"partial"} ELSE {})

\* -deltaY * 1.2, exact for the deltaY of the model (multiples of 5).
DragUpAmount(deltaY) == ((0 - deltaY) * 12) \div 10

\* The offset taken as computed, without the clamp.
Unclamped(v) == v

\* Math.min(Math.max(0, v), MAX_DRAG_DISTANCE)
Clamp(v) == Min(Max(0, v), MAX_DRAG_DISTANCE)

dragThresholdP1 == 1

\* 'horizontal' iff |deltaX| > |deltaY|
DragDirection(deltaX, deltaY) ==
  IF Abs(deltaX) > Abs(deltaY) THEN "horizontal" ELSE "vertical"

\* The vertical branch of handleDragMove of part_001.
VerticalMove(s, c, deltaY, y) ==
  LET currentOffset == s.off[c.dragged]
      newOffset == Clamp(currentOffset + DragUpAmount(deltaY))
  IN [s EXCEPT !.el[c.dragged] =
                  [cls |-> UpdateTabExtensionState(@.cls, newOffset),
                   tx |-> 0, ext |-> 0],
               !.off[c.dragged] = newOffset,
               !.dsy = y]

\* The horizontal branch of handleDragMove of part_001: the positions are read
\* before the transform of this update is written.
HorizontalMove(s, c, x) ==
  LET pos == GetTabPositions(s, c)
      ci == FindIndex([k \in 1 .. Len(pos) |-> pos[k].id], c.dragged)
      offsetX == x - s.dsx
  IN IF ci = 0 THEN s
     ELSE ReorderCheck([s EXCEPT !.el[c.dragged].tx = offsetX], c, pos, offsetX, x)

\* handleDragMove(e) of part_001, the registered closure c.
DragMoveP1(s, c, x, y) ==
  IF ~ s.isDragging \/ c.dragged = Null THEN s
  ELSE LET deltaX == x - s.dsx
           deltaY == y - s.dsy
           dir == DragDirection(deltaX, deltaY)
           s1 == IF Abs(deltaX) > dragThresholdP1 \/ Abs(deltaY) > dragThresholdP1
                 THEN [s EXCEPT !.hasMoved = TRUE,
                                !.dtype = IF c.dtype = "none" THEN dir ELSE @]
                 ELSE s
       IN IF ~ s1.hasMoved \/ ~ HasEl(s1, c.dragged) THEN s1
          ELSE IF c.dtype = "none"
          THEN [s1 EXCEPT !.dtype = dir,
                          !.el[c.dragged] =
                             IF dir = "vertical"
                             THEN [@ EXCEPT !.tx = 0]
                             ELSE [@ EXCEPT !.tx = deltaX]]
          ELSE IF c.dtype = "vertical" THEN VerticalMove(s1, c, deltaY, y)
          ELSE HorizontalMove(s1, c, x)

\* The vertical branch of handleDragEnd without the snap: the tab stays where
\* the last update left it.
VerticalEndWithoutSnap(s, c) == s

\* The vertical branch of handleDragEnd of part_001: the snap by the offset.
VerticalEnd(s, c) ==
  LET currentOffset == s.off[c.dragged]
  IN IF ~ HasEl(s, c.dragged) THEN s
     ELSE IF currentOffset < 15 THEN ResetTabPosition(s, c, c.dragged)
     ELSE IF currentOffset < 50
     THEN [s EXCEPT !.el[c.dragged] =
                      [cls |-> (@.cls \ {"full"}) \cup {"partial"}, tx |-> 0,
                       ext |-> 0],
                    !.off[c.dragged] = 40]
     ELSE [s EXCEPT !.el[c.dragged] =
                      [cls |-> (@.cls \ {"partial"}) \cup {"full"}, tx |-> 0,
                       ext |-> 0],
                    !.off[c.dragged] = MAX_DRAG_DISTANCE]

\* handleDragEnd() of part_001, the registered closure c.
DragEndP1(s, c) ==
  IF c.dragged = Null THEN s
  ELSE LET s1 == [s EXCEPT !.isDragging = FALSE]
           s2 == IF ~ s1.hasMoved THEN [s1 EXCEPT !.active = c.dragged]
                 ELSE IF c.dtype = "horizontal"
                 THEN LET s3 == IF HasEl(s1, c.dragged)
                                THEN [s1 EXCEPT !.el[c.dragged].tx = 0] ELSE s1
                      IN [s3 EXCEPT !.dragged = Null, !.dtype = "none"]
                 ELSE IF c.dtype = "vertical" THEN VerticalEnd(s1, c)
                 ELSE s1
       IN [s2 EXCEPT !.listening = FALSE]

\* deleteNote(id) of part_001, called from the render whose closure is c.
DeleteNoteP1(s, c, id) ==
  LET s1 == [s EXCEPT !.notes = FilterOut(@, id), !.nch = TRUE, !.off[id] = 0]
      s2 == IF id = c.dragged THEN [s1 EXCEPT !.dragged = Null] ELSE s1
      remainingNotes == FilterOut(c.notes, id)
  IN IF c.active = id /\ Len(c.notes) > 1
     THEN IF Len(remainingNotes) > 0
          THEN [s2 EXCEPT !.active = remainingNotes[1].id]
          ELSE s2
     ELSE IF Len(c.notes) = 1 THEN CreateNewNote(s2, c)
     ELSE s2

\* -------------------------------------------------- the rich text editor

\* A DOM node of the editing surface.  k: "text" (one character c of a text
\* node; neighbouring characters are one text node), "span" (class c),
\* "h" (tag h1..h3 in c), "ul", "li", "br", and "task" (div.taskItem: the
\* checkbox span with its glyph in box, "none" when the div has no checkbox
\* child, and the taskText span with its children in kids; done: taskText has
\* the class taskCompleted; lis: the note whose handlers the checkbox's click
\* listener was built from, 0 without a listener).  cls: the class set by
\* className on a heading or a list.
Node(k, c, cls, kids, box, done, lis) ==
  [k |-> k, c |-> c, cls |-> cls, kids |-> kids, box |-> box, done |-> done,
   lis |-> lis]
Txt(c) == Node("text", c, "", <<>>, "none", FALSE, 0)
Span(cls, kids) == Node("span", cls, "", kids, "none", FALSE, 0)
Br == Node("br", "", "", <<>>, "none", FALSE, 0)
\* document.createElement('div') with the checkbox '☐' and the taskText of
\* addTaskItem and handleKeyDown; owner: the note of the render whose
\* closure the click listener holds.
NewTaskItem(kids, owner) == Node("task", "", "", kids, "unchecked", FALSE, owner)

Glyph(box) == IF box = "checked" THEN "[x]" ELSE "[ ]"

RECURSIVE TextOfSeq(_)
\* Range.toString() / textContent of a run of nodes: the data of the text
\* nodes in document order (the glyph of a checkbox is a text node).
TextOfSeq(ns) ==
  IF ns = <<>> THEN <<>>
  ELSE LET n == Head(ns)
           own == IF n.k = "text" THEN <<n.c>>
                  ELSE IF n.k = "task" /\ n.box # "none" THEN <<Glyph(n.box)>>
                  ELSE <<>>
       IN own \o TextOfSeq(n.kids) \o TextOfSeq(Tail(ns))

\* document.createTextNode(text): one text node with these characters.
TextNode(text) == [j \in 1 .. Len(text) |-> Txt(text[j])]

RECURSIVE CountTasks(_)
\* The number of div.taskItem elements under the surface.
CountTasks(ns) ==
  IF ns = <<>> THEN 0
  ELSE (IF Head(ns).k = "task" THEN 1 ELSE 0)
       + CountTasks(Head(ns).kids) + CountTasks(Tail(ns))

RECURSIVE Size(_)
Size(ns) ==
  IF ns = <<>> THEN 0 ELSE 1 + Size(Head(ns).kids) + Size(Tail(ns))

\* A serialization that writes the tags and the text only.
WrittenWithoutAttributes(ns) ==
  [j \in 1 .. Len(ns) |->
     Node(ns[j].k, ns[j].c, "", ns[j].kids, "unchecked", FALSE, 0)]

RECURSIVE Written(_)
\* The innerHTML getter.  The markup carries tags, classes, attributes and
\* text; it does not carry event listeners, and a void element (br) is
\* written without children.
Written(ns) ==
  IF ns = <<>> THEN <<>>
  ELSE LET n == Head(ns)
       IN <<[n EXCEPT !.lis = 0,
                      !.kids = IF n.k = "br" THEN <<>> ELSE Written(n.kids)]>>
          \o Written(Tail(ns))

\* A string of markup, by the elements and text it spells out.
Markup(ns) == [html |-> ns]
EmptyString == Markup(<<>>)
InnerHTML(ns) == Markup(Written(ns))

\* The innerHTML setter: the nodes the markup describes, built anew.
SetInnerHTML(str) == str.html

\* The selection.  kind "none": rangeCount is 0.  "out": the range lies
\* outside the content div.  "top": from before child a+1 to after child b of
\* the content div.  "task": inside the taskText of child i, from before its
\* child a+1 to after its child b; inText: the container is a text node of the
\* taskText (its parentElement is the taskText) and not the taskText itself.
\* "cross": from before child a+1 of the content div into the taskText of
\* child i, after its child b.  "in": collapsed at the end of the content of
\* child i (of its last item, for a list); inText as for "task".
Sel(kind, i, a, b, inText) ==
  [kind |-> kind, i |-> i, a |-> a, b |-> b, inText |-> inText]
NoSel == Sel("none", 0, 0, 0, FALSE)
CaretHome == Sel("top", 0, 0, 0, FALSE)

Selections(d) ==
  {NoSel, Sel("out", 0, 0, 0, FALSE)}
  \cup {Sel("top", 0, a, b, FALSE) : a, b \in 0 .. Len(d)}
  \cup UNION {{Sel("task", i, a, b, t) : a, b \in 0 .. Len(d[i].kids),
                                         t \in BOOLEAN} : i \in 1 .. Len(d)}
  \cup UNION {{Sel("cross", i, a, b, FALSE) : a \in 0 .. i - 1,
                                              b \in 0 .. Len(d[i].kids)} :
              i \in 1 .. Len(d)}
  \cup {Sel("in", i, 0, 0, TRUE) : i \in 1 .. Len(d)}

\* The selections the user can make in the document d.
ValidSel(d, s) ==
  CASE s.kind = "top" -> s.a <= s.b
    [] s.kind = "task" -> /\ d[s.i].k = "task" /\ s.a <= s.b
                          /\ s.inText => d[s.i].kids # <<>>
    [] s.kind = "cross" -> d[s.i].k = "task"
    [] s.kind = "in" -> d[s.i].k \in {"span", "h", "ul"}
    [] OTHER -> TRUE

\* editorRef.current.contains(range.commonAncestorContainer)
InSurface(s) == s.kind \in {"top", "task", "cross", "in"}

\* range.commonAncestorContainer.parentElement: its tag or class.
ParentElement(d, s) ==
  CASE s.kind = "task" -> IF s.inText THEN "taskText" ELSE "taskItem"
    [] s.kind = "in" -> IF ~ s.inText THEN "content"
                        ELSE IF d[s.i].k = "ul" THEN "li" ELSE d[s.i].k
    [] OTHER -> "content"

\* parentElement.closest('.taskItem') finds a task item.
InTaskItem(d, s) == s.kind = "task"

\* range.toString()
SelectedText(d, s) ==
  CASE s.kind = "top" -> TextOfSeq(SubSeq(d, s.a + 1, s.b))
    [] s.kind = "task" -> TextOfSeq(SubSeq(d[s.i].kids, s.a + 1, s.b))
    [] s.kind = "cross" ->
         TextOfSeq(SubSeq(d, s.a + 1, s.i - 1))
         \o (IF d[s.i].box # "none" THEN <<Glyph(d[s.i].box)>> ELSE <<>>)
         \o TextOfSeq(SubSeq(d[s.i].kids, 1, s.b))
    [] OTHER -> <<>>

\* Appends nodes to the content of child i (to its last item, for a list).
AppendInto(d, i, new) ==
  IF d[i].k = "ul"
  THEN [d EXCEPT ![i].kids[Len(d[i].kids)].kids = @ \o new]
  ELSE [d EXCEPT ![i].kids = @ \o new]

\* range.deleteContents() followed by range.insertNode for each node of new:
\* the nodes wholly inside the range go, a node the range ends in loses what
\* lies before the end, and the new nodes stand at the start of the range.
ReplaceSelection(d, s, new) ==
  CASE s.kind = "top" -> SubSeq(d, 1, s.a) \o new \o SubSeq(d, s.b + 1, Len(d))
    [] s.kind = "task" ->
         [d EXCEPT ![s.i].kids = SubSeq(@, 1, s.a) \o new \o SubSeq(@, s.b + 1, Len(@))]
    [] s.kind = "cross" ->
         SubSeq(d, 1, s.a) \o new
         \o <<[d[s.i] EXCEPT !.box = "none", !.lis = 0,
                             !.kids = SubSeq(@, s.b + 1, Len(@))]>>
         \o SubSeq(d, s.i + 1, Len(d))
    [] s.kind = "in" -> AppendInto(d, s.i, new)
    [] OTHER -> d

\* The range after insertNode: it spans the inserted node.
SelectInserted(s) ==
  IF s.kind = "task" THEN Sel("task", s.i, s.a, s.a + 1, FALSE)
  ELSE Sel("top", 0, s.a, s.a + 1, FALSE)

\* The state a handler of the editor works on.  out: the strings it has
\* passed to onChange so far.
EdCur == [dom |-> dom, sel |-> sel, out |-> <<>>, isBold |-> isBold,
          menu |-> showSizeMenu]

\* handleContentChange: onChange(editorRef.current.innerHTML)
HandleContentChange(e) == [e EXCEPT !.out = Append(@, InnerHTML(e.dom))]

\* The span of toggleBold and changeTextSize, with its class and one text
\* node that holds range.toString(): range.deleteContents();
\* span.appendChild(createTextNode(selectedText)); range.insertNode(span)
WrapSelection(e, cls) ==
  [e EXCEPT !.dom = ReplaceSelection(e.dom, e.sel,
                      <<Span(cls, TextNode(SelectedText(e.dom, e.sel)))>>),
            !.sel = SelectInserted(e.sel)]

ToggleBoldEmitsAlways(e) ==
  IF InSurface(e.sel) /\ SelectedText(e.dom, e.sel) # <<>>
  THEN HandleContentChange([WrapSelection(e, "bold") EXCEPT !.isBold = ~ @])
  ELSE HandleContentChange(e)

ToggleBold(e) ==
  IF InSurface(e.sel) /\ SelectedText(e.dom, e.sel) # <<>>
  THEN HandleContentChange([WrapSelection(e, "bold") EXCEPT !.isBold = ~ @])
  ELSE e

Sizes == {"small", "large"}

ChangeTextSize(e, size) ==
  LET e1 == IF InSurface(e.sel) /\ SelectedText(e.dom, e.sel) # <<>>
            THEN HandleContentChange(WrapSelection(e, size))
            ELSE e
  IN [e1 EXCEPT !.menu = FALSE]

Levels == {1, 2}
HTag(level) == IF level = 1 THEN "h1" ELSE IF level = 2 THEN "h2" ELSE "h3"
HClass(level) ==
  IF level = 1 THEN "heading1" ELSE IF level = 2 THEN "heading2" ELSE "heading3"

Inline(n) == n.k \in {"text", "span"}

\* The line the caret is on: the run of inline children of the content div
\* around the range, as <<lo, hi>> (children lo+1 .. hi).
Line(d, s) ==
  LET lo == CHOOSE l \in 0 .. s.a :
              /\ \A j \in l + 1 .. s.a : Inline(d[j])
              /\ l > 0 => ~ Inline(d[l])
      hi == CHOOSE h \in s.b .. Len(d) :
              /\ \A j \in s.b + 1 .. h : Inline(d[j])
              /\ h < Len(d) => ~ Inline(d[h + 1])
  IN <<lo, hi>>

\* The caret after the line became the content of one block: in a text node
\* of the block when it was a caret in text, else on the block.
CaretInBlock(d, s, lo) ==
  Sel("in", lo + 1, 0, 0,
      /\ s.a = s.b
      /\ \/ s.a > 0 /\ d[s.a].k = "text"
         \/ s.a < Len(d) /\ d[s.a + 1].k = "text")

\* What document.execCommand can find to work on: a line at the top level
\* that has content and holds the whole range, or a block the caret is in.
CanFormat(d, s, kinds) ==
  \/ /\ s.kind = "top"
     /\ Line(d, s)[1] < Line(d, s)[2]
     /\ \A j \in s.a + 1 .. s.b : Inline(d[j])
  \/ s.kind = "in" /\ d[s.i].k \in kinds

\* document.execCommand('formatBlock', false, 'h' + level) when it applies:
\* the line becomes a heading, or the heading of the caret changes its tag;
\* the command fires an input event on the content div (onInput).
FormatBlock(e, level) ==
  LET d == e.dom
      s == e.sel
      ln == Line(d, s)
      e1 == IF s.kind = "top"
            THEN [e EXCEPT
                    !.dom = SubSeq(d, 1, ln[1])
                            \o <<Node("h", HTag(level), "",
                                      SubSeq(d, ln[1] + 1, ln[2]),
                                      "none", FALSE, 0)>>
                            \o SubSeq(d, ln[2] + 1, Len(d)),
                    !.sel = CaretInBlock(d, s, ln[1])]
            ELSE [e EXCEPT !.dom[s.i].c = HTag(level)]
  IN HandleContentChange(e1)

\* addHeading(level); applies: execCommand changed the document.
AddHeading(e, level, applies) ==
  LET e1 == IF applies THEN FormatBlock(e, level) ELSE e
      e2 == IF e1.sel.kind # "none" /\ ParentElement(e1.dom, e1.sel) = "h"
            THEN [e1 EXCEPT !.dom[e1.sel.i].cls = HClass(level)]
            ELSE e1
  IN HandleContentChange(e2)

\* document.execCommand('insertUnorderedList') when it applies: the line
\* becomes the one item of a new list; it fires an input event.
InsertUnorderedList(e) ==
  LET d == e.dom
      s == e.sel
      ln == Line(d, s)
  IN HandleContentChange(
       [e EXCEPT
          !.dom = SubSeq(d, 1, ln[1])
                  \o <<Node("ul", "", "",
                            <<Node("li", "", "", SubSeq(d, ln[1] + 1, ln[2]),
                                   "none", FALSE, 0)>>,
                            "none", FALSE, 0)>>
                  \o SubSeq(d, ln[2] + 1, Len(d)),
          !.sel = CaretInBlock(d, s, ln[1])])

\* addBulletList(); applies: execCommand changed the document.
AddBulletList(e, applies) ==
  LET e1 == IF applies THEN InsertUnorderedList(e) ELSE e
      e2 == IF e1.sel.kind # "none" /\ ParentElement(e1.dom, e1.sel) = "li"
            THEN [e1 EXCEPT !.dom[e1.sel.i].cls = "bulletList"]
            ELSE e1
  IN HandleContentChange(e2)

\* The branch "inside a task item" of addTaskItem, and the Enter key of
\* handleKeyDown: a new empty task item after the current one, the caret at
\* the start of its text.
InsertTaskAfter(e, owner) ==
  LET i == e.sel.i
  IN [e EXCEPT !.dom = SubSeq(e.dom, 1, i) \o <<NewTaskItem(<<Txt("nbsp")>>, owner)>>
                       \o SubSeq(e.dom, i + 1, Len(e.dom)),
               !.sel = Sel("task", i + 1, 0, 0, FALSE)]

\* The branch "at the current position" of addTaskItem: the task item takes
\* the selected text, stands where the range was, and a br follows it.
InsertTaskHere(e, owner) ==
  LET text == SelectedText(e.dom, e.sel)
      task == NewTaskItem(IF text # <<>> THEN TextNode(text) ELSE <<Txt("nbsp")>>, owner)
      d1 == ReplaceSelection(e.dom, e.sel, <<task>>)
      p == e.sel.a + 1
      d2 == IF p < Len(d1)
            THEN SubSeq(d1, 1, p) \o <<Br>> \o SubSeq(d1, p + 1, Len(d1))
            ELSE Append(d1, Br)
  IN [e EXCEPT !.dom = d2,
               !.sel = Sel("task", p, Len(task.kids), Len(task.kids), FALSE)]

\* addTaskItem(); owner: the note of the render the handler belongs to.
AddTaskItem(e, owner) ==
  IF ~ InSurface(e.sel) THEN e
  ELSE HandleContentChange(IF InTaskItem(e.dom, e.sel)
                           THEN InsertTaskAfter(e, owner)
                           ELSE InsertTaskHere(e, owner))

ToggleTaskCheckboxKeepsClass(e, i) ==
  HandleContentChange(
    IF e.dom[i].box = "unchecked"
    THEN [e EXCEPT !.dom[i].box = "checked", !.dom[i].done = TRUE]
    ELSE [e EXCEPT !.dom[i].box = "unchecked"])

\* toggleTaskCheckbox, and the click listener of handleKeyDown, on the
\* checkbox of child i: the glyph, and the class of its next element sibling,
\* the taskText.
ToggleTaskCheckbox(e, i) ==
  HandleContentChange(
    IF e.dom[i].box = "unchecked"
    THEN [e EXCEPT !.dom[i].box = "checked", !.dom[i].done = TRUE]
    ELSE [e EXCEPT !.dom[i].box = "unchecked", !.dom[i].done = FALSE])

\* textContent.trim() === ''
Blank(ns) == \A j \in 1 .. Len(TextOfSeq(ns)) : TextOfSeq(ns)[j] = "nbsp"

\* previousElementSibling of child i: its index, 0 for null.
PreviousElement(d, i) ==
  IF \E j \in 1 .. i - 1 : d[j].k # "text"
  THEN CHOOSE j \in 1 .. i - 1 :
         d[j].k # "text" /\ \A m \in j + 1 .. i - 1 : d[m].k = "text"
  ELSE 0

\* handleKeyDown for Backspace handles the key itself when the caret is at
\* offset 0 of a text node of a taskText that is empty or blank.
BackspaceInTask(d, s) ==
  /\ s.kind = "task" /\ ParentElement(d, s) = "taskText"
  /\ s.a = s.b
  /\ IF s.a = 0 THEN TRUE ELSE d[s.i].kids[s.a].k # "text"
  /\ Blank(d[s.i].kids)

\* A key handler that leaves Enter in a task item to the browser as well: the
\* new task item is followed by the line break of the default action.
HandleKeyDownNewline(e, key, owner) ==
  IF key = "Enter" /\ InTaskItem(e.dom, e.sel)
  THEN LET e1 == InsertTaskAfter(e, owner)
           p == e.sel.i + 1
       IN HandleContentChange(
            [e1 EXCEPT !.dom = SubSeq(e1.dom, 1, p) \o <<Br>>
                               \o SubSeq(e1.dom, p + 1, Len(e1.dom))])
  ELSE e

\* handleKeyDown(e); owner: the note of the render the handler belongs to.
HandleKeyDown(e, key, owner) ==
  LET d == e.dom
      s == e.sel
  IN IF key = "Enter" /\ InTaskItem(d, s)
     THEN HandleContentChange(InsertTaskAfter(e, owner))
     ELSE IF key = "Backspace" /\ BackspaceInTask(d, s)
     THEN LET p == PreviousElement(d, s.i)
              d1 == RemoveAt(d, s.i)
              s1 == IF p = 0 THEN Sel("top", 0, s.i - 1, s.i - 1, FALSE)
                    ELSE IF d[p].k = "task"
                    THEN Sel("task", p, Len(d[p].kids), Len(d[p].kids), FALSE)
                    ELSE Sel("in", p, 0, 0, FALSE)
          IN HandleContentChange([e EXCEPT !.dom = d1, !.sel = s1])
     ELSE e

\* The useEffect on [value]: it runs when value is another string than at
\* the last render, and sets innerHTML when innerHTML is another string.
Replaces(d, oldValue, newValue) ==
  newValue # oldValue /\ InnerHTML(d) # newValue

\* handleNoteChange of the render of note `target`, called with each string
\* of out: that note's content is the last of them.
HandleNoteChange(c, target, out) ==
  IF out = <<>> THEN c ELSE [c EXCEPT ![target] = out[Len(out)]]

\* The variables after an event of the editor that leaves the handler state
\* e, having called the onChange of the render of note `target`: the owner
\* stores the content, renders, and the effect on value runs.
EdApply(e, target, ev) ==
  LET c1 == HandleNoteChange(content, target, e.out)
      rep == Replaces(e.dom, content[edActive], c1[edActive])
  IN /\ content' = c1
     /\ dom' = IF rep THEN SetInnerHTML(c1[edActive]) ELSE e.dom
     /\ sel' = IF rep THEN CaretHome ELSE e.sel
     /\ isBold' = e.isBold
     /\ showSizeMenu' = e.menu
     /\ emits' = e.out
     /\ lastEmitted' = IF e.out = <<>> THEN lastEmitted ELSE <<e.out[Len(e.out)]>>
     /\ edEv' = [name |-> ev, replaced |-> rep]
     /\ UNCHANGED edActive
     /\ Size(dom') <= MaxDoc

\* ------------------------------------------------- events of the editor

EdNotes == {1, 2}

\* The editor is not on the page.
EditorIdle ==
  /\ dom = <<>>
  /\ sel = NoSel
  /\ content = [n \in EdNotes |-> EmptyString]
  /\ edActive = 1
  /\ isBold = FALSE
  /\ showSizeMenu = FALSE
  /\ emits = <<>>
  /\ lastEmitted = <<>>
  /\ edEv = [name |-> "none", replaced |-> FALSE]


\* ------------------------------------------------------------------ events

\* the label of the last event; the tab and the timing are not recorded
Ev(op, id, quick) == op

\* A note of an earlier session, as the store holds it: renamed and written in.
StoredNote(id) == [id |-> id, name |-> "renamed", content |-> "text",
                   color |-> DefaultColor]

\* The largest stored workspace the note-list specifications start from, and
\* the number of tabs the gesture specifications of notes.tsx and of part_001
\* start from.
StoredMax == 2
DragTabsCur == 3
DragTabsP1 == 2

StoreOf(k) == Stored([i \in 1 .. k |-> StoredNote(i)])

InitStores == {Absent, Malformed} \cup {StoreOf(k) : k \in 1 .. StoredMax}

\* The page before its first render.
InitPage(v, stores) ==
  /\ ver = v
  /\ mounted = FALSE
  /\ notes = <<>>
  /\ activeNoteId = Null
  /\ draggedTabId = Null
  /\ dragType = "none"
  /\ dragStartX = 0
  /\ dragStartY = 0
  /\ isDragging = FALSE
  /\ hasDragMoved = FALSE
  /\ lastClickTime = 0
  /\ dragOffsetY = NoOffsets
  /\ tabEl = NoElements
  /\ listening = FALSE
  /\ moveNotes = <<>>
  /\ localStorage \in stores
  /\ clock = Len(localStorage.val)
  /\ deleteTimers = {}
  /\ createTimers = {}
  /\ lastEv = Ev("init", Null, FALSE)

InitWith(v, stores) == InitPage(v, stores) /\ EditorIdle

\* The first render and its effects (the load effect, the save effect).
Mount ==
  /\ ~ mounted
  /\ Apply(Cur, Ev("mount", Null, FALSE))

\* The page is loaded again: the component is built anew, the store is kept,
\* pending timers are gone.
Reload ==
  /\ mounted
  /\ mounted' = FALSE
  /\ notes' = <<>>
  /\ activeNoteId' = Null
  /\ draggedTabId' = Null
  /\ dragType' = "none"
  /\ dragStartX' = 0
  /\ dragStartY' = 0
  /\ isDragging' = FALSE
  /\ hasDragMoved' = FALSE
  /\ lastClickTime' = 0
  /\ dragOffsetY' = NoOffsets
  /\ tabEl' = NoElements
  /\ listening' = FALSE
  /\ moveNotes' = <<>>
  /\ deleteTimers' = {}
  /\ createTimers' = {}
  /\ lastEv' = Ev("reload", Null, FALSE)
  /\ UNCHANGED <<ver, localStorage, clock>>
  /\ UNCHANGED edVars

\* onClick of a tab: handleTabClick(id).
TabClick ==
  /\ mounted
  /\ \E id \in IdSet(notes) :
       Apply([Cur EXCEPT !.active = id], Ev("click", id, FALSE))

\* A click outside the tabs reaches the document listener, handleDocumentClick
\* of the current render.
OutsideClick ==
  /\ mounted
  /\ Apply(DocumentClick(Cur, Closure), Ev("outside", Null, FALSE))

\* onClick of the add-tab button: createNewNote of the current render.
NewTab ==
  /\ mounted
  /\ Apply(CreateNewNote(Cur, Closure), Ev("new", Null, FALSE))

\* mousedown on a tab (not on its option buttons or colour swatches).
PressCurAt(id, quick) ==
  /\ mounted /\ ver = "cur" /\ id \in IdSet(notes)
  /\ \E x \in PressXS :
       Apply(DragStartCur(Cur, Closure, id, x, quick), Ev("press", id, quick))

PressCur == \E id \in Ids, quick \in BOOLEAN : PressCurAt(id, quick)

\* mousemove on the document while the listeners are registered.
MoveCurAt(x) ==
  /\ mounted /\ ver = "cur" /\ listening
  /\ Apply(DragMoveCur(Cur, MoveClosure, x), Ev("move", draggedTabId, FALSE))

MoveCur == \E x \in XS : MoveCurAt(x)

\* mouseup on the document while the listeners are registered.
ReleaseCur ==
  /\ mounted /\ ver = "cur" /\ listening
  /\ Apply(DragEndCur(Cur, MoveClosure), Ev("release", draggedTabId, FALSE))

\* onClick of a tab's delete button: deleteNote is deferred by 10 ms, with the
\* closure of the render that was clicked.
DeleteClickCur ==
  /\ mounted /\ ver = "cur"
  /\ Cardinality(deleteTimers) < MaxPending
  /\ \E id \in IdSet(notes) :
       Apply([Cur EXCEPT !.delT = @ \cup {[id |-> id, c |-> Closure]}],
             Ev("deleteClick", id, FALSE))

\* The 10 ms timer of the delete button fires: deleteNote(id).
DeleteTimer ==
  /\ mounted /\ ver = "cur"
  /\ \E t \in deleteTimers :
       /\ Len(t.c.notes) <= 1 => Cardinality(createTimers \cup {t.c}) <= MaxPending
       /\ Apply(DeleteNoteCur([Cur EXCEPT !.delT = @ \ {t}], t.c, t.id),
                Ev("delete", t.id, FALSE))

\* The 50 ms timer of deleteNote fires: createNewNote().
CreateTimer ==
  /\ mounted /\ ver = "cur"
  /\ \E c \in createTimers :
       Apply(CreateNewNote([Cur EXCEPT !.crtT = @ \ {c}], c), Ev("create", Null, FALSE))

PressP1At(id, quick) ==
  /\ mounted /\ ver = "p1" /\ id \in IdSet(notes)
  /\ \E x \in PressXS, y \in PressYS :
       Apply(DragStartP1(Cur, Closure, id, x, y, quick), Ev("press", id, quick))

PressP1 == \E id \in Ids, quick \in BOOLEAN : PressP1At(id, quick)

MoveP1At(x, y) ==
  /\ mounted /\ ver = "p1" /\ listening
  /\ Apply(DragMoveP1(Cur, MoveClosure, x, y), Ev("move", draggedTabId, FALSE))

MoveP1 == \E x \in XSP1, y \in YS : MoveP1At(x, y)

ReleaseP1 ==
  /\ mounted /\ ver = "p1" /\ listening
  /\ Apply(DragEndP1(Cur, MoveClosure), Ev("release", draggedTabId, FALSE))

\* onClick of a tab's delete button in part_001: deleteNote(id) at once.
DeleteClickP1 ==
  /\ mounted /\ ver = "p1"
  /\ \E id \in IdSet(notes) :
       Apply(DeleteNoteP1(Cur, Closure, id), Ev("delete", id, FALSE))

\* The gestures of both revisions on a workspace whose notes are not created
\* or deleted meanwhile: notes.tsx on DragTabsCur tabs, part_001 on DragTabsP1.
InitDrag ==
  \/ InitWith("cur", {StoreOf(DragTabsCur)})
  \/ InitWith("p1", {StoreOf(DragTabsP1)})

NextDrag ==
  \/ Mount \/ TabClick \/ OutsideClick
  \/ PressCur \/ MoveCur \/ ReleaseCur
  \/ PressP1 \/ MoveP1 \/ ReleaseP1

SpecDrag == InitDrag /\ [][NextDrag]_vars

\* The gesture events alone (press, double click, move, release, outside
\* click), without the click that selects a tab.
NextGesture ==
  \/ Mount \/ OutsideClick
  \/ PressCur \/ MoveCur \/ ReleaseCur
  \/ PressP1 \/ MoveP1 \/ ReleaseP1

SpecGesture == InitDrag /\ [][NextGesture]_vars

\* The life of the note list in both revisions: load, reload, new tab, delete
\* (in notes.tsx with its two timers); a tab is pressed, clicked or
\* double-clicked, not dragged.
InitNotes == InitWith("cur", InitStores) \/ InitWith("p1", InitStores)

NextNotes ==
  \/ Mount \/ Reload \/ TabClick \/ OutsideClick \/ NewTab
  \/ PressCur \/ DeleteClickCur \/ DeleteTimer \/ CreateTimer
  \/ PressP1 \/ DeleteClickP1

SpecNotes == InitNotes /\ [][NextNotes]_vars

\* Loading and reloading the workspace, between loads of which notes are
\* selected, added and (in part_001, where it takes one step) deleted.
NextLoad ==
  \/ Mount \/ Reload \/ TabClick \/ NewTab \/ DeleteClickP1

SpecLoad == InitNotes /\ [][NextLoad]_vars

\* onClick of the add-tab button, delivered in the millisecond in which the
\* click before it created its note: Date.now() reads what it read then.
NewTabAgain ==
  /\ mounted /\ lastEv \in {"new", "newAgain"}
  /\ Apply(CreateNewNote([Cur EXCEPT !.made = TRUE], Closure),
           Ev("newAgain", Null, FALSE))

\* The life of the note list with clicks on the add-tab button that follow
\* each other within one reading of the clock.
NextIds == NextNotes \/ NewTabAgain

SpecIds == InitNotes /\ [][NextIds]_vars

\* Horizontal gestures of both revisions on DragTabsCur tabs: the pointer
\* stays on the row of tabs (the press's y) and moves left and right of the
\* press.
XSRow == {-50, 0, 50}

MoveP1Row == \E x \in XSRow, y \in PressYS : MoveP1At(x, y)

InitRow ==
  \/ InitWith("cur", {StoreOf(DragTabsCur)})
  \/ InitWith("p1", {StoreOf(DragTabsCur)})

NextRow ==
  \/ Mount
  \/ PressCur \/ MoveCur \/ ReleaseCur
  \/ PressP1 \/ MoveP1Row \/ ReleaseP1

SpecRow == InitRow /\ [][NextRow]_vars

\* Gestures of notes.tsx during which notes are deleted: the delete button's
\* timer and the timer of deleteNote run between the events of a gesture.
InitAbandon == InitWith("cur", {StoreOf(StoredMax)})

NextAbandon ==
  \/ Mount
  \/ PressCur \/ MoveCur \/ ReleaseCur
  \/ DeleteClickCur \/ DeleteTimer \/ CreateTimer

SpecAbandon == InitAbandon /\ [][NextAbandon]_vars

\* The targets of a click that reaches only the document listener: a point
\* outside the tabs, the add-tab button, the tab options, the colour picker
\* and the rename dialog ("outside"), and a point inside the content of the
\* open rename dialog ("modalContent"), whose own onClick only stops the
\* propagation.  (A click on a tab or on the add-tab button runs that
\* element's handler too: TabClick, NewTab.)
Targets == {"outside", "modalContent"}

\* isOutsideTabs of handleDocumentClick: notes.tsx tests closest() for
\* modalContent, part_001 does not.
IsOutsideTabs(target) ==
  IF ver = "cur" THEN target = "outside" ELSE target \in {"outside", "modalContent"}

\* handleDocumentClick(e) with e.target in the region target.
DocumentClickAt(s, c, target) ==
  IF c.dragged = Null \/ ~ IsOutsideTabs(target) THEN s
  ELSE ResetTabPosition(s, c, c.dragged)

\* A click inside the content of the open rename dialog.
ModalClick ==
  /\ mounted
  /\ Apply(DocumentClickAt(Cur, Closure, "modalContent"), Ev("modal", Null, FALSE))

\* The gesture events and the clicks that reach only the document listener.
NextOutside == NextGesture \/ ModalClick

SpecOutside == InitDrag /\ [][NextOutside]_vars

\* The editor on its own.
\* The editor after its first render and effect, on a page with two notes,
\* the first of them active: innerHTML is value.
InitEditorWith(strings) ==
  /\ InitPage("cur", {Absent})
  /\ content \in [EdNotes -> strings]
  /\ edActive = 1
  /\ dom = SetInnerHTML(content[1])
  /\ sel = NoSel
  /\ isBold = FALSE
  /\ showSizeMenu = FALSE
  /\ emits = <<>>
  /\ lastEmitted = <<>>
  /\ edEv = [name |-> "mount", replaced |-> content[1] # EmptyString]

\* Each note is new and empty or holds a character of text.
InitEditor == InitEditorWith({EmptyString, Markup(<<Txt("a")>>)})

\* The user puts the caret or the selection somewhere, or takes it away.
Select ==
  /\ \E s \in Selections(dom) :
       /\ ValidSel(dom, s)
       /\ s # sel
       /\ EdApply([EdCur EXCEPT !.sel = s], edActive, "select")
  /\ UNCHANGED pageVars

\* The user types a character at the caret: the browser inserts it and fires
\* an input event (onInput).
TypeChar ==
  /\ sel.kind \in {"top", "task", "in"}
  /\ sel.a = sel.b
  /\ sel.kind = "in" => dom[sel.i].k # "br"
  /\ EdApply(HandleContentChange(
               [EdCur EXCEPT !.dom = ReplaceSelection(dom, sel, <<Txt("a")>>),
                             !.sel = IF sel.kind = "in" THEN sel
                                     ELSE Sel(sel.kind, sel.i, sel.a + 1,
                                              sel.a + 1, sel.kind = "task")]),
             edActive, "input")
  /\ UNCHANGED pageVars

\* The content div loses the focus (onBlur).
Blur ==
  /\ InSurface(sel)
  /\ EdApply(HandleContentChange(EdCur), edActive, "blur")
  /\ UNCHANGED pageVars

\* onClick of the toolbar buttons.
ClickBold ==
  /\ EdApply(ToggleBold(EdCur), edActive, "toggleBold")
  /\ UNCHANGED pageVars

ClickSizeMenu ==
  /\ EdApply([EdCur EXCEPT !.menu = ~ @], edActive, "sizeMenu")
  /\ UNCHANGED pageVars

ClickSize ==
  /\ showSizeMenu
  /\ \E size \in Sizes : EdApply(ChangeTextSize(EdCur, size), edActive, "changeTextSize")
  /\ UNCHANGED pageVars

\* The heading and list buttons are pressed with the caret at the top level,
\* in a block, or nowhere in the surface.
ClickHeading ==
  /\ sel.kind \in {"none", "out", "top", "in"}
  /\ \E level \in Levels, applies \in BOOLEAN :
       /\ applies => CanFormat(dom, sel, {"h"})
       /\ EdApply(AddHeading(EdCur, level, applies), edActive, "addHeading")
  /\ UNCHANGED pageVars

ClickBullet ==
  /\ sel.kind \in {"none", "out", "top", "in"}
  /\ \E applies \in BOOLEAN :
       /\ applies => CanFormat(dom, sel, {})
       /\ EdApply(AddBulletList(EdCur, applies), edActive, "addBulletList")
  /\ UNCHANGED pageVars

\* The task button is pressed with the selection anywhere but in a block.
ClickTask ==
  /\ sel.kind # "in"
  /\ EdApply(AddTaskItem(EdCur, edActive), edActive, "addTaskItem")
  /\ UNCHANGED pageVars

\* A click on the checkbox of child i reaches the listener the checkbox was
\* given when it was created, if it has one.
ClickCheckbox ==
  /\ \E i \in 1 .. Len(dom) :
       /\ dom[i].k = "task" /\ dom[i].box # "none" /\ dom[i].lis # 0
       /\ EdApply(ToggleTaskCheckbox(EdCur, i), dom[i].lis, "toggleCheckbox")
  /\ UNCHANGED pageVars

\* Enter and Backspace where handleKeyDown handles them itself.
KeyEnter ==
  /\ InTaskItem(dom, sel)
  /\ EdApply(HandleKeyDown(EdCur, "Enter", edActive), edActive, "enter")
  /\ UNCHANGED pageVars

KeyBackspace ==
  /\ BackspaceInTask(dom, sel)
  /\ EdApply(HandleKeyDown(EdCur, "Backspace", edActive), edActive, "backspace")
  /\ UNCHANGED pageVars

\* handleTabClick of the other note: the owner renders with its content.
SwitchNote ==
  LET id == CHOOSE n \in EdNotes : n # edActive
      rep == Replaces(dom, content[edActive], content[id])
  IN /\ edActive' = id
     /\ dom' = IF rep THEN SetInnerHTML(content[id]) ELSE dom
     /\ sel' = IF rep THEN CaretHome ELSE sel
     /\ emits' = <<>>
     /\ edEv' = [name |-> "switch", replaced |-> rep]
     /\ UNCHANGED <<content, isBold, showSizeMenu, lastEmitted>>
     /\ UNCHANGED pageVars

\* The user puts the caret somewhere between the children of the content div.
PlaceCaret ==
  /\ \E a \in 0 .. Len(dom) :
       /\ Sel("top", 0, a, a, FALSE) # sel
       /\ EdApply([EdCur EXCEPT !.sel = Sel("top", 0, a, a, FALSE)], edActive, "select")
  /\ UNCHANGED pageVars

\* Text and its formatting.
NextFormat ==
  \/ Select \/ TypeChar \/ Blur \/ ClickBold \/ ClickSizeMenu \/ ClickSize
SpecFormat == InitEditor /\ [][NextFormat]_vars

\* Headings and lists.
NextBlocks ==
  \/ Select \/ TypeChar \/ ClickHeading \/ ClickBullet
SpecBlocks == InitEditor /\ [][NextBlocks]_vars

\* Task items.
NextTasks ==
  \/ Select \/ ClickTask \/ ClickCheckbox \/ KeyEnter \/ KeyBackspace \/ ClickBold
SpecTasks == InitEditor /\ [][NextTasks]_vars

\* Two new notes, task items, and the owner going from one note to the other.
NextOwner ==
  \/ PlaceCaret \/ ClickTask \/ ClickCheckbox \/ SwitchNote
SpecOwner == InitEditorWith({EmptyString}) /\ [][NextOwner]_vars

\* -------------------------------------------------------------- properties

\* b is a rearrangement of a: same length, every element as often.
IsPermutation(a, b) ==
  /\ Len(a) = Len(b)
  /\ \A x \in Range(a) \cup Range(b) :
       Cardinality({i \in DOMAIN a : a[i] = x}) = Cardinality({i \in DOMAIN b : b[i] = x})

\* The ids of the workspace the gesture specification starts from.
DragIds == [i \in 1 .. (IF ver = "cur" THEN DragTabsCur ELSE DragTabsP1) |-> i]

\* C1: after any sequence of gesture updates, each of which may fire
\* reorderTabs, the note-id sequence is a permutation of the sequence the
\* workspace was loaded with; and reorderTabs(fromId, toIndex) applied to the
\* list of any reachable state, for any fromId (known or not) and any toIndex
\* (in or out of range), yields a permutation of that list: same length, no id
\* lost, none duplicated.
C1_ReorderIsPermutation ==
  mounted =>
    /\ IsPermutation(DragIds, IdsOf(notes))
    /\ \A fromId \in Ids \cup {Null}, toIndex \in -2 .. MaxNotes + 1 :
         IsPermutation(IdsOf(notes), IdsOf(ReorderTabs(notes, fromId, toIndex)))

\* C1 witness: a gesture update of notes.tsx has just moved the first tab
\* behind the second.
C1_Reordered ==
  ver = "cur" /\ lastEv = "move" /\ IdsOf(notes) = <<2, 1, 3>>

\* The order [A, B, C] of Scenario C and the orders it passes through.
OrderABC == <<1, 2, 3>>
OrderBAC == <<2, 1, 3>>
OrderBCA == <<2, 3, 1>>

\* In the gesture that began on A with the tabs in order [A, B, C], A has
\* hopped over B: the order is [B, A, C], the horizontal origin was rebased,
\* and the gesture is still going on.
C6_AfterFirstHop ==
  /\ ver = "cur" /\ listening /\ isDragging /\ hasDragMoved
  /\ draggedTabId = 1 /\ dragType = "horizontal"
  /\ moveNotes = OrderABC /\ IdsOf(notes) = OrderBAC
  /\ dragStartX > 0

\* The pointer at x puts A's candidate position (its left edge before the
\* drag, 0, plus the movement since the press) right of the midpoint of C,
\* the third tab.
C6_PastMidpointOfC(x) ==
  \A x0 \in PressXS : 2 * (x - x0) > 2 * (2 * TabWidth) + TabWidth

\* C6 (Scenario C): in one horizontal drag of A over [A, B, C], once the order
\* has become [B, A, C], the update that takes A's candidate position across
\* C's midpoint changes the order to [B, C, A].
C6_ScenarioC ==
  [][\A x \in XS :
       (C6_AfterFirstHop /\ C6_PastMidpointOfC(x) /\ MoveCurAt(x))
         => IdsOf(notes') = OrderBCA]_vars

\* The first half of Scenario C happens: A has hopped over B mid-gesture.
C6_FirstHop == C6_AfterFirstHop /\ lastEv = "move"

\* The note list holds exactly one note, a default one (named with today's
\* date, empty, default colour), and it is the active note.
OneDefaultNoteActive(ns, active) ==
  /\ Len(ns) = 1
  /\ ns[1].name = DateName /\ ns[1].content = "" /\ ns[1].color = DefaultColor
  /\ active = ns[1].id

\* C4: the first load of a workspace with no entry in the store ends with
\* exactly one note, named with today's date, which is the active note.
C4_FirstLoadOfEmptyStore ==
  [][(~ mounted /\ localStorage.kind = "absent" /\ mounted')
       => OneDefaultNoteActive(notes', activeNoteId')]_vars

\* C4 witness: the load has created the first note of an empty workspace and
\* the save effect has stored it.
C4_DefaultNoteLoaded ==
  /\ lastEv = "mount" /\ clock = 1
  /\ OneDefaultNoteActive(notes, activeNoteId)
  /\ localStorage = Stored(notes)

\* C5: the load of a store whose data fails to parse ends as the load of an
\* absent store does: the malformed data is gone from the store and the list
\* holds exactly one default note, which is active.
C5_MalformedStoreReinitialised ==
  [][(~ mounted /\ localStorage.kind = "malformed" /\ mounted')
       => /\ OneDefaultNoteActive(notes', activeNoteId')
          /\ localStorage'.kind # "malformed"]_vars

\* The load of a malformed store has finished.
C5_MalformedLoaded ==
  lastEv = "mount" /\ localStorage.kind = "malformed"

\* C2: once the note list is non-empty it stays non-empty in every state of
\* the loaded workspace, the one right after deleting the last note included.
C2_NeverEmptyAgain ==
  [][(Len(notes) > 0 /\ mounted') => Len(notes') > 0]_vars

\* deleteNote has just removed the only note.
C2_LastNoteDeleted ==
  lastEv = "delete" /\ Len(notes) = 0 /\ createTimers # {}

\* C3: when the operation that deletes the only note has completed (deleteNote
\* has run and the createNewNote it scheduled has run), the list holds exactly
\* one note, a fresh default note, and it is active.
C3_ReplacementIsTheOnlyNote ==
  [][(ver = "cur" /\ createTimers # {} /\ lastEv' = "create")
       => OneDefaultNoteActive(notes', activeNoteId')]_vars

\* The replacement of a deleted only note has been created.
C3_ReplacementCreated ==
  ver = "cur" /\ lastEv = "create" /\ Len(notes) > 0

\* C7: in every state reachable by presses, moves, releases, double clicks
\* and outside clicks, the stored drag offset of every tab is in [0, 100].
C7_OffsetInRange ==
  \A id \in Ids :
     /\ dragOffsetY[id] >= 0 /\ dragOffsetY[id] <= 100
     /\ tabEl[id].ext >= 0 /\ tabEl[id].ext <= 100

\* C7 witness: a vertical update (it rebased dragStartY) has just left the
\* dragged tab's offset at the upper end of the range.
C7_OffsetAtMax ==
  /\ ver = "p1" /\ lastEv = "move" /\ listening /\ dragType = "vertical"
  /\ dragStartY \notin PressYS
  /\ draggedTabId # Null /\ dragOffsetY[draggedTabId] = MAX_DRAG_DISTANCE

\* The extension band of a tab, from the classes of its element.
Band(el, id) == el[id].cls

\* C8: in a gesture of part_001 (from press to release) that has reordered the
\* notes, no update and no release changes a tab's offset or band, and an
\* update that reorders changes none; in a gesture that has changed an offset,
\* no update and no release reorders the notes.  (The origin dragStartX is
\* rebased only by a reorder, dragStartY only by a vertical update.)
C8_OneKindOfEffect ==
  [][(ver = "p1" /\ listening /\ lastEv' \in {"move", "release"})
       => /\ (dragStartX \notin PressXS \/ IdsOf(notes') # IdsOf(notes))
               => /\ dragOffsetY' = dragOffsetY
                  /\ \A id \in Ids : Band(tabEl', id) = Band(tabEl, id)
          /\ dragStartY \notin PressYS => IdsOf(notes') = IdsOf(notes)]_vars

\* A gesture of part_001 has just reordered the notes.
C8_ReorderingGesture ==
  /\ ver = "p1" /\ listening /\ lastEv = "move"
  /\ dragStartX \notin PressXS /\ IdsOf(notes) = <<2, 1>>

\* C9: the update of a gesture of part_001 that is the first to exceed the
\* movement threshold decides the axis from its own movement, horizontal iff
\* |dx| > |dy| and vertical otherwise; after that update the axis does not
\* change before the release.
C9_AxisDecidedOnce ==
  [][\A x \in XSP1, y \in YS :
       MoveP1At(x, y) =>
         LET dx == x - dragStartX
             dy == y - dragStartY
         IN /\ (~ hasDragMoved /\ (Abs(dx) > dragThresholdP1 \/ Abs(dy) > dragThresholdP1))
                 => dragType' = DragDirection(dx, dy)
            /\ hasDragMoved => dragType' = dragType]_vars

\* An update of a gesture of part_001 has exceeded the threshold.
C9_OverThreshold ==
  ver = "p1" /\ lastEv = "move" /\ hasDragMoved /\ dragType # "none"

\* A tab that is not Idle: it carries the drag marker (pressed or dragged),
\* or it is extended (offset > 0, or band partial or full).
NonIdle(dragged, off, el, id) ==
  dragged = id \/ off[id] > 0 \/ el[id].ext > 0 \/ Band(el, id) # {}

\* C10: at most one tab is non-Idle, and a press or a double click on T
\* leaves every other tab Idle.
C10_OneNonIdleTab ==
  Cardinality({id \in IdSet(notes) :
                 NonIdle(draggedTabId, dragOffsetY, tabEl, id)}) <= 1

\* A double click has extended a tab.
C10_Extended ==
  /\ lastEv = "press" /\ draggedTabId # Null
  /\ "full" \in Band(tabEl, draggedTabId)

\* C11: a press on T that is not a double click leaves T the active note, and
\* the release that ends the gesture on T leaves T the active note, whatever
\* the gesture did in between.
C11_PressedTabStaysActive ==
  [][/\ \A id \in Ids :
          (PressCurAt(id, FALSE) \/ PressP1At(id, FALSE)) => activeNoteId' = id
     /\ ((ReleaseCur \/ ReleaseP1) /\ draggedTabId # Null)
          => activeNoteId' = draggedTabId]_vars

\* A plain press has begun a gesture on a tab.
C11_PlainPress ==
  lastEv = "press" /\ lastClickTime = 1 /\ draggedTabId # Null

\* A press on the tab id that handleDragStart takes as a double click: it comes
\* less than 300 ms after a press whose time lastClickTime still holds.
DoubleClickAt(id) ==
  lastClickTime # 0 /\ (PressCurAt(id, TRUE) \/ PressP1At(id, TRUE))

\* The tab id of notes.tsx is extended: its element has the height or the class
\* of an extended tab.
ExtendedCur(el, id) == el[id].ext > 0 \/ Band(el, id) # {}

\* C12: a press on T less than 300 ms after the previous press toggles the
\* extension of T (extended becomes collapsed, collapsed becomes extended) and
\* starts no gesture: it records no drag origin, arms no move/release handling
\* and leaves hasDragMoved and isDragging as they were; and the press that
\* follows a detected double click, however quick, is handled as a plain press.
C12_DoubleClickToggles ==
  [][\A id \in Ids :
       /\ DoubleClickAt(id)
            => /\ dragStartX' = dragStartX /\ dragStartY' = dragStartY
               /\ hasDragMoved' = hasDragMoved /\ isDragging' = isDragging
               /\ listening' => listening
               /\ lastClickTime' = 0
               /\ ver = "cur" => ExtendedCur(tabEl', id) # ExtendedCur(tabEl, id)
       /\ (lastEv = "press" /\ lastClickTime = 0
             /\ (PressCurAt(id, TRUE) \/ PressP1At(id, TRUE)))
            => lastClickTime' = 1]_vars

\* A double click has been detected.
C12_DoubleClicked ==
  lastEv = "press" /\ lastClickTime = 0

\* C13: the double click on T maps the band of T: a full tab becomes
\* collapsed with offset 0; a collapsed or partial tab becomes full with
\* offset 100 (in notes.tsx, which stores no offset, with the height of a
\* fully extended tab).
C13_ToggleMapsBands ==
  [][\A id \in Ids :
       DoubleClickAt(id) =>
         IF "full" \in Band(tabEl, id)
         THEN /\ Band(tabEl', id) = {}
              /\ dragOffsetY'[id] = 0 /\ tabEl'[id].ext = 0
         ELSE /\ Band(tabEl', id) = {"full"}
              /\ ver = "p1" => dragOffsetY'[id] = MAX_DRAG_DISTANCE
              /\ ver = "cur" => tabEl'[id].ext = MAX_TAB_EXTEND]_vars

\* A double click has ended on a tab whose band is full.
C13_ToggledToFull ==
  /\ lastEv = "press" /\ lastClickTime = 0
  /\ draggedTabId # Null /\ Band(tabEl, draggedTabId) = {"full"}

\* A plain press (no double click) on the tab id.
PlainPressAt(id) == PressCurAt(id, FALSE) \/ PressP1At(id, FALSE)

\* C14: a plain press on a tab whose band is partial or full collapses the
\* tab (offset 0, no band, no extra height) and begins no drag: no move or
\* release handling is armed, so later moves do nothing until the next press.
C14_PressCollapsesExtendedTab ==
  [][\A id \in Ids :
       (PlainPressAt(id) /\ Band(tabEl, id) # {})
         => /\ Band(tabEl', id) = {}
            /\ dragOffsetY'[id] = 0 /\ tabEl'[id].ext = 0
            /\ ~ listening']_vars

\* A plain press on an extended tab has left it without a band.
C14_Collapsed ==
  /\ lastEv = "press" /\ lastClickTime = 1 /\ ~ listening
  /\ draggedTabId = Null /\ \A id \in Ids : Band(tabEl, id) = {}

\* clamp(v, 0, 100)
ClampTo100(v) == IF v < 0 THEN 0 ELSE IF v > 100 THEN 100 ELSE v

\* The band of an offset: full from 40 on, partial between 10 and 40
\* (exclusive), none otherwise.
BandOf(offset) ==
  IF offset >= 40 THEN {"full"} ELSE IF offset > 10 THEN {"partial"} ELSE {}

AllCollapsed ==
  \A id \in Ids : dragOffsetY[id] = 0 /\ tabEl[id].ext = 0 /\ Band(tabEl, id) = {}

\* The machine is Idle: no tab carries the drag marker, no axis is set and no
\* tab is extended.
Idle == draggedTabId = Null /\ dragType = "none" /\ AllCollapsed

\* The step leaves the note order, every tab's offset and band, and the drag
\* axis as they were.
NothingButSelection ==
  /\ IdsOf(notes') = IdsOf(notes)
  /\ dragOffsetY' = dragOffsetY
  /\ \A id \in Ids : Band(tabEl', id) = Band(tabEl, id) /\ tabEl'[id].ext = tabEl[id].ext
  /\ dragType' = dragType

\* C17: a press on a tab of the Idle machine followed by a release with no
\* movement beyond the threshold is a pure click: neither the press nor the
\* release changes the note order, a tab's offset or band, or the drag axis.
C17_PureClick ==
  [][/\ \A id \in Ids : (Idle /\ PlainPressAt(id)) => NothingButSelection
     /\ ((ReleaseCur \/ ReleaseP1) /\ draggedTabId # Null /\ ~ hasDragMoved)
          => NothingButSelection]_vars

\* A gesture without movement has been released.
C17_Clicked ==
  lastEv = "release" /\ ~ hasDragMoved /\ draggedTabId # Null /\ ~ isDragging

\* C18: the release of every gesture of notes.tsx leaves the machine Idle: the
\* drag axis is none, no tab is marked as dragged, the note order is the order
\* just before the release, and no move handling stays armed (isDragging is
\* false and the listeners are gone), so later moves change nothing until the
\* next press.
C18_ReleaseReturnsToIdle ==
  [][(ReleaseCur /\ draggedTabId # Null)
       => /\ dragType' = "none" /\ draggedTabId' = Null
          /\ IdsOf(notes') = IdsOf(notes)
          /\ ~ isDragging' /\ ~ listening']_vars

\* A gesture of notes.tsx that reordered the tabs has been released.
C18_ReleasedAfterReorder ==
  /\ ver = "cur" /\ lastEv = "release" /\ draggedTabId = Null
  /\ IdsOf(notes) # OrderABC

\* A horizontal update of either revision with the pointer at x.
RowMoveAt(x) == MoveCurAt(x) \/ (\E y \in PressYS : MoveP1At(x, y))

\* C19: a horizontal reorder is applied in the update that detects the
\* crossing (the release changes no order), that update rebases the horizontal
\* origin to the pointer's x, and the update that follows at the same pointer
\* x changes the note order no further.
C19_ReorderOnceAndRebase ==
  [][/\ \A x \in XS \cup XSRow :
          /\ (RowMoveAt(x) /\ IdsOf(notes') # IdsOf(notes)) => dragStartX' = x
          /\ (/\ RowMoveAt(x) /\ lastEv = "move" /\ isDragging
              /\ dragStartX = x /\ x \notin PressXS)
               => IdsOf(notes') = IdsOf(notes)
     /\ (ReleaseCur \/ ReleaseP1) => IdsOf(notes') = IdsOf(notes)]_vars

\* An update has reordered the notes and rebased the origin to the pointer.
C19_ReorderedAndRebased ==
  /\ lastEv = "move" /\ listening /\ isDragging
  /\ dragStartX \notin PressXS /\ IdsOf(notes) # OrderABC

\* C20: when deleteNote removes the note whose tab is under an active gesture
\* of notes.tsx, the gesture is abandoned: afterwards no tab is dragged, no
\* axis is set and no move or release handling is armed, and reorderTabs with
\* the missing id returns the list unchanged; a move or release that still
\* arrives for a missing id changes neither the list nor the active note.
C20_DeletedTabAbandonsGesture ==
  [][/\ (/\ ver = "cur" /\ lastEv' = "delete"
         /\ isDragging /\ draggedTabId \in IdSet(notes)
         /\ draggedTabId \notin IdSet(notes'))
          => /\ draggedTabId' = Null /\ dragType' = "none" /\ ~ listening'
             /\ \A k \in 0 .. MaxNotes :
                  ReorderTabs(notes', draggedTabId, k) = notes'
     /\ ((MoveCur \/ ReleaseCur) /\ draggedTabId \notin IdSet(notes))
          => notes' = notes /\ activeNoteId' = activeNoteId]_vars

\* deleteNote has removed the tab of a gesture in progress and cleared the
\* drag state.
C20_GestureAbandoned ==
  /\ ver = "cur" /\ lastEv = "delete" /\ isDragging
  /\ draggedTabId = Null /\ dragType = "none" /\ Len(notes) = 1

\* Some tab is extended or dragged.
SomeTabActive == draggedTabId # Null \/ ~ AllCollapsed

C22_MoveReadsLatestState ==
  [][(MoveCur \/ MoveP1) => MoveClosure.notes = IdsOf(notes)]_vars

\* A move event has been handled after a press, past the threshold.
C22_MoveHandled ==
  lastEv = "move" /\ listening /\ isDragging /\ hasDragMoved

\* The owner hands the editor a content string: it stored an emission and
\* rendered, or it went to the other note.
OwnerSupplies == emits' # <<>> \/ edActive' # edActive

\* C23: once the editor has emitted, a content string supplied by the owner
\* replaces the document exactly when it differs from the last string the
\* editor emitted.
C23_ReplacesIffDiffers ==
  [][(OwnerSupplies /\ lastEmitted' # <<>>)
       => (edEv'.replaced <=> <<content'[edActive']>> # lastEmitted')]_vars

\* The owner went to the other note, whose content differs from the last
\* emission, and the document was replaced.
C23_ReplacedOnSwitch ==
  /\ edEv.name = "switch" /\ edEv.replaced
  /\ lastEmitted # <<>> /\ <<content[edActive]>> # lastEmitted
  /\ dom = SetInnerHTML(content[edActive])

Commands ==
  {"toggleBold", "changeTextSize", "addHeading", "addBulletList",
   "addTaskItem", "toggleCheckbox", "enter", "backspace"}

\* The step is a command that changed the document or called onChange.
CommandCompleted ==
  edEv'.name \in Commands /\ (dom' # dom \/ emits' # <<>>)

\* C24: a completed command calls onChange exactly once, with the document
\* as the command leaves it.
C24_EmitsOnceAtEnd ==
  [][CommandCompleted => emits' = <<InnerHTML(dom')>>]_vars

\* The heading button made the line a heading and onChange was called twice,
\* first with the heading that has no class yet.
C24_HeadingEmittedTwice ==
  /\ edEv.name = "addHeading" /\ Len(emits) = 2
  /\ emits[1] # emits[2] /\ emits[2] = InnerHTML(dom)

\* The selection is collapsed, absent, or outside the content div.
NothingSelected == ~ InSurface(sel) \/ sel.a = sel.b

\* C25: the bold button and a size item pressed with nothing selected in the
\* surface leave the document, the selection and the notes as they are and
\* call onChange not at all.
C25_NoSelectionNoOp ==
  [][(edEv'.name \in {"toggleBold", "changeTextSize"} /\ NothingSelected)
       => /\ dom' = dom /\ sel' = sel /\ content' = content
          /\ emits' = <<>> /\ isBold' = isBold]_vars

\* The bold button was pressed with the caret in a document that has text.
C25_BoldWithCaret ==
  /\ edEv.name = "toggleBold" /\ emits = <<>>
  /\ sel.kind = "top" /\ sel.a = sel.b /\ TextOfSeq(dom) # <<>>

\* C26: the bold button pressed with children a+1 .. b of the content div
\* selected puts one span of class bold in their place, with exactly these
\* nodes as its children, and leaves the other children as they are.
C26_BoldWrapsSelectedNodes ==
  [][(edEv'.name = "toggleBold" /\ sel.kind = "top" /\ sel.a < sel.b)
       => dom' = SubSeq(dom, 1, sel.a)
                 \o <<Span("bold", SubSeq(dom, sel.a + 1, sel.b))>>
                 \o SubSeq(dom, sel.b + 1, Len(dom))]_vars

\* The bold button has put selected text into a span of class bold.
C26_TextMadeBold ==
  /\ edEv.name = "toggleBold" /\ Len(emits) = 1 /\ isBold
  /\ sel.kind = "top" /\ sel.b = sel.a + 1
  /\ dom[sel.b].k = "span" /\ dom[sel.b].c = "bold"

\* C27: the task button leaves one more task item in the document than there
\* was, wherever the selection is.
C27_OneMoreTaskItem ==
  [][edEv'.name = "addTaskItem" => CountTasks(dom') = CountTasks(dom) + 1]_vars

\* The task button has added a second task item.
C27_SecondTaskItem ==
  edEv.name = "addTaskItem" /\ Len(emits) = 1 /\ CountTasks(dom) = 2

\* The task button is pressed with the range at the top level of the content
\* div, not inside a task item.
TaskAtTopLevel == edEv'.name = "addTaskItem" /\ sel.kind = "top"

\* C28: the new task item stands where the range was, and a br follows it
\* exactly when something followed the range.
C28_BrOnlyIfNotLast ==
  [][TaskAtTopLevel
       => /\ dom'[sel.a + 1].k = "task"
          /\ SubSeq(dom', 1, sel.a) = SubSeq(dom, 1, sel.a)
          /\ IF sel.b < Len(dom)
             THEN dom' = SubSeq(dom', 1, sel.a + 1) \o <<Br>>
                         \o SubSeq(dom, sel.b + 1, Len(dom))
             ELSE Len(dom') = sel.a + 1]_vars

\* The task button has put a task item before text, a br after it.
C28_TaskBeforeText ==
  /\ edEv.name = "addTaskItem" /\ Len(dom) = 3
  /\ dom[1].k = "task" /\ dom[2] = Br /\ dom[3].k = "text"

\* Child i of the content div is a task item with a checkbox.
HasCheckbox(d, i) == d[i].k = "task" /\ d[i].box # "none"

\* C29: for every checkbox of the document, two clicks on it leave the glyph
\* and the class of the task text as they were.
C29_ToggleTwiceRestores ==
  \A i \in 1 .. Len(dom) :
    HasCheckbox(dom, i)
      => LET twice == ToggleTaskCheckbox(ToggleTaskCheckbox(EdCur, i), i).dom
         IN twice[i].box = dom[i].box /\ twice[i].done = dom[i].done

\* The one checkbox of the document was clicked and is unchecked again.
C29_UncheckedAgain ==
  /\ edEv.name = "toggleCheckbox" /\ CountTasks(dom) = 1
  /\ \E i \in 1 .. Len(dom) :
       HasCheckbox(dom, i) /\ dom[i].box = "unchecked" /\ ~ dom[i].done

\* C30: in every document, a task item's checkbox is checked exactly when its
\* text has the class taskCompleted.
C30_CheckedIffCompleted ==
  \A i \in 1 .. Len(dom) :
    dom[i].k = "task" => ((dom[i].box = "checked") <=> dom[i].done)

\* One of two task items was checked by a click and its text is completed.
C30_CheckedAndCompleted ==
  /\ edEv.name = "toggleCheckbox" /\ CountTasks(dom) = 2
  /\ \E i \in 1 .. Len(dom) :
       dom[i].k = "task" /\ dom[i].box = "checked" /\ dom[i].done

\* The caret is collapsed at offset 0 of the text of a task item that is empty
\* or blank.
CaretAtEmptyTask ==
  sel.kind = "task" /\ sel.a = 0 /\ sel.b = 0 /\ Blank(dom[sel.i].kids)

\* The end of child p of the document d, inside its text for a task item.
EndOfChild(d, p) ==
  IF d[p].k = "task" THEN Sel("task", p, Len(d[p].kids), Len(d[p].kids), FALSE)
  ELSE IF d[p].k = "text" THEN Sel("top", 0, p, p, FALSE)
  ELSE Sel("in", p, 0, 0, FALSE)

\* C31: handleKeyDown takes Backspace itself whenever the caret is at offset 0
\* of a blank task text; it removes that task item and nothing else, and the
\* caret is at the end of the child before it, or at the start of the surface
\* when there is none.
C31_BackspaceRemovesTask ==
  [][/\ CaretAtEmptyTask => BackspaceInTask(dom, sel)
     /\ edEv'.name = "backspace"
          => /\ dom' = RemoveAt(dom, sel.i)
             /\ sel' = IF sel.i = 1 THEN CaretHome
                       ELSE EndOfChild(dom, sel.i - 1)]_vars

\* Backspace removed the second task item and the caret is in the text of
\* the first.
C31_CaretInPreviousTask ==
  /\ edEv.name = "backspace" /\ CountTasks(dom) = 1
  /\ sel.kind = "task" /\ sel.a = Len(dom[sel.i].kids) /\ sel.a = sel.b

RECURSIVE Attributes(_)
\* The kinds of the nodes of a document in order, with the tag of a heading,
\* the class of a span, heading or list, and the checkbox and the completed
\* class of a task item.
Attributes(ns) ==
  [j \in 1 .. Len(ns) |->
     [k |-> ns[j].k, c |-> ns[j].c, cls |-> ns[j].cls, box |-> ns[j].box,
      done |-> ns[j].done, kids |-> Attributes(ns[j].kids)]]

C33_IdsDistinct == Cardinality(IdSet(notes)) = Len(notes)

\* Two clicks on the add-tab button at one reading of the clock have made two
\* notes, the last two of the list, with the same id.
C33_TwoNotesOneId ==
  /\ lastEv = "newAgain" /\ Len(notes) >= 2
  /\ notes[Len(notes)].id = notes[Len(notes) - 1].id

\* C34: a click on the add-tab button leaves the list it found with one new
\* note appended at its end, and that note is the active one.
C34_NewTabAppendsOne ==
  [][lastEv' = "new"
       => /\ Len(notes') = Len(notes) + 1
          /\ SubSeq(notes', 1, Len(notes)) = notes
          /\ IF Len(notes') = 0 THEN FALSE
             ELSE /\ notes'[Len(notes')] = NewNote(clock')
                  /\ activeNoteId' = clock']_vars

\* The add-tab button was clicked and the note it created, whose id is the
\* last reading of the clock, is not in the list.
C34_NewNoteLost ==
  lastEv = "new" /\ Len(notes) > 0 /\ clock \notin IdSet(notes)

\* The notes of the list before the step that are in the list after it, as
\* they stand after it.
Remaining == SelectSeq(notes', LAMBDA n : n.id \in IdSet(notes))

\* C35: the step in which deleteNote runs takes one note out of the list and
\* leaves every other note of the list in it, with its fields and in order.
C35_DeleteRemovesOnlyX ==
  [][lastEv' = "delete" => \E id \in Ids : Remaining = FilterOut(notes, id)]_vars

\* deleteNote has run, a note is left, and the store holds the list.
C35_DeletedAndStored ==
  lastEv = "delete" /\ Len(notes) > 0 /\ localStorage = Stored(notes)

\* C36: for every note fromId of the list and every toIndex from 0 to
\* length - 1, reorderTabs(fromId, toIndex) gives a list that has the note
\* fromId, unchanged, at index toIndex and the other notes, unchanged, in the
\* order they had; and a move that reorders the list is such a call and does
\* not change the active note.
C36_ReorderPlacesAtIndex ==
  [][/\ \A fromId \in IdSet(notes) : \A toIndex \in 0 .. Len(notes) - 1 :
          LET r == ReorderTabs(notes, fromId, toIndex)
          IN /\ Len(r) = Len(notes)
             /\ r[toIndex + 1] = notes[FindIndex(IdsOf(notes), fromId)]
             /\ FilterOut(r, fromId) = FilterOut(notes, fromId)
     /\ lastEv' = "move" /\ notes' # notes
          => /\ activeNoteId' = activeNoteId
             /\ \E toIndex \in 0 .. Len(notes) - 1 :
                  notes' = ReorderTabs(notes, draggedTabId, toIndex)]_vars

\* A move has taken the first note of a list of three to its end.
C36_FirstMovedToEnd ==
  /\ lastEv = "move" /\ Len(notes) = 3
  /\ IdsOf(notes) = <<2, 3, 1>> /\ draggedTabId = 1

C38_EveryCheckboxToggles ==
  \A i \in 1 .. Len(dom) :
    dom[i].k = "task" /\ dom[i].box # "none"
      => /\ dom[i].lis # 0
         /\ LET t == ToggleTaskCheckbox(EdCur, i).dom[i]
            IN t.box # dom[i].box /\ t.done # dom[i].done

\* The owner switched to a note whose content has a task item: the document
\* was set from the string and its checkbox has no listener.
C38_BoundTaskWithoutListener ==
  /\ edEv.name = "switch" /\ edEv.replaced
  /\ \E i \in 1 .. Len(dom) :
       dom[i].k = "task" /\ dom[i].box # "none" /\ dom[i].lis = 0

\* No operation is in progress: the page is mounted, no timer of a delete or
\* of a replacement note is pending and no gesture is under way.
Quiescent ==
  mounted /\ deleteTimers = {} /\ createTimers = {} /\ ~ listening

\* C39: when the list has notes and no operation is in progress, the active
\* note id is the id of a note of the list.
C39_ActiveNoteInList ==
  Quiescent /\ Len(notes) > 0 => activeNoteId \in IdSet(notes)

\* A delete has completed, notes are left and one of them is active.
C39_ActiveAfterDelete ==
  /\ Quiescent /\ lastEv = "delete" /\ Len(notes) > 0
  /\ activeNoteId \in IdSet(notes)

\* C40: when no operation is in progress the store holds the note list of the
\* page: the same notes in the same order with the same fields.
C40_StoreEqualsNotes ==
  Quiescent => localStorage = Stored(notes)

\* The replacement note of a deleted last note is in the store and not in the
\* list, with no operation in progress.
C40_StoredNoteNotInList ==
  /\ Quiescent /\ lastEv = "create" /\ notes = <<>>
  /\ localStorage.kind = "notes" /\ Len(localStorage.val) = 1

====
